---- MODULE Spec2Model ----
(***************************************************************************)
(* Model of mlflow_dock/main.py: the /webhook endpoint (header checks,     *)
(* timestamp freshness, HMAC signature, JSON routing), the fire-and-forget *)
(* dispatch of build_and_push_docker, and the /health endpoint.            *)
(*                                                                         *)
(* Text is a sequence of code points (integers), bytes are integers in     *)
(* 0..255.  A header that the client did not send is not a string at all:  *)
(* a request carries the set of header names it sent next to their values. *)
(***************************************************************************)
EXTENDS Integers, Sequences, FiniteSets, TLC

\* ---------------------------------------------------------------- bounds

\* requests received over one run of the service
MaxRequests == 2
\* departures of one request from a well-formed signed delivery
MaxFaults == 1
\* longest payload, delivery id and timestamp of a direct signature call
MaxLen == 1
\* largest max_age of a direct freshness call
MaxAge == 2
\* latest clock reading of a direct freshness call
MaxClock == 11

\* ------------------------------------------------------- configuration

\* os.getenv("MAX_TIMESTAMP_AGE", "300")
MAX_TIMESTAMP_AGE == 300

\* os.environ["WEBHOOK_SECRET"]: the text "k"
WEBHOOK_SECRET == <<107>>

\* a secret the service is not configured with: the text "w"
OtherSecret == <<119>>

\* ------------------------------------------------------------- text

\* the code point of "." in f"{delivery_id}.{timestamp}.{payload}"
DOT == 46

\* the literal "v1,"
V1Prefix == <<118, 49, 44>>

RECURSIVE Flatten(_)
Flatten(ss) == IF ss = <<>> THEN <<>> ELSE Head(ss) \o Flatten(Tail(ss))

\* str.startswith
StartsWith(s, p) == Len(s) >= Len(p) /\ SubSeq(s, 1, Len(p)) = p

\* str.removeprefix
RemovePrefix(s, p) == IF StartsWith(s, p) THEN SubSeq(s, Len(p) + 1, Len(s)) ELSE s

\* str.encode("utf-8") for code points below 2048
Utf8EncodeChar(c) == IF c < 128 THEN <<c>> ELSE <<192 + (c \div 64), 128 + (c % 64)>>
Utf8Encode(s) == Flatten([i \in 1..Len(s) |-> Utf8EncodeChar(s[i])])

\* bytes.decode("utf-8") for one- and two-byte sequences: the decoded text, or
\* the failure UnicodeDecodeError
RECURSIVE Utf8Valid(_)
Utf8Valid(b) ==
    IF b = <<>> THEN TRUE
    ELSE IF b[1] < 128 THEN Utf8Valid(Tail(b))
    ELSE IF b[1] >= 194 /\ b[1] < 224 /\ Len(b) >= 2 /\ b[2] >= 128 /\ b[2] < 192
         THEN Utf8Valid(Tail(Tail(b)))
    ELSE FALSE

RECURSIVE Utf8Decode(_)
Utf8Decode(b) ==
    IF b = <<>> THEN <<>>
    ELSE IF b[1] < 128 THEN <<b[1]>> \o Utf8Decode(Tail(b))
    ELSE <<(b[1] - 192) * 64 + (b[2] - 128)>> \o Utf8Decode(Tail(Tail(b)))

\* the str compared by hmac.compare_digest must be ASCII only
IsAscii(s) == \A i \in 1..Len(s) : s[i] < 128

\* ------------------------------------------------------------ int()

IsDigit(c) == c >= 48 /\ c <= 57

RECURSIVE DigitsValue(_)
DigitsValue(s) == IF s = <<>> THEN 0 ELSE DigitsValue(SubSeq(s, 1, Len(s) - 1)) * 10 + (s[Len(s)] - 48)

\* the digits of s after an optional sign
Unsigned(s) == IF s # <<>> /\ s[1] \in {43, 45} THEN Tail(s) ELSE s

\* int(s) raises ValueError unless s is an optional sign and at least one digit
\* (surrounding blanks and "_" between digits, which int() also takes, are not
\* among the characters of the timestamps sent here)
IntParses(s) == Unsigned(s) # <<>> /\ \A i \in 1..Len(Unsigned(s)) : IsDigit(Unsigned(s)[i])

IntValue(s) == IF s[1] = 45 THEN 0 - DigitsValue(Unsigned(s)) ELSE DigitsValue(Unsigned(s))

\* ------------------------------------------------- freshness, signature

\* (as verify_timestamp_freshness, with `age <= max_age` as the whole test)
verify_timestamp_freshness_noLower(timestamp_str, current_timestamp, max_age) ==
    IF ~IntParses(timestamp_str) THEN FALSE
    ELSE current_timestamp - IntValue(timestamp_str) <= max_age

\* (as verify_timestamp_freshness, with `0 <= age` as the whole test)
verify_timestamp_freshness_noUpper(timestamp_str, current_timestamp, max_age) ==
    IF ~IntParses(timestamp_str) THEN FALSE
    ELSE 0 <= current_timestamp - IntValue(timestamp_str)

\* try: age = int(time.time()) - int(timestamp_str); return 0 <= age <= max_age
\* except (ValueError, TypeError): return False
verify_timestamp_freshness(timestamp_str, current_timestamp, max_age) ==
    IF ~IntParses(timestamp_str) THEN FALSE
    ELSE LET age == current_timestamp - IntValue(timestamp_str)
         IN  0 <= age /\ age <= max_age

\* (as signed_content, without the payload)
signed_content_noPayload(delivery_id, timestamp, payload) ==
    delivery_id \o <<DOT>> \o timestamp \o <<DOT>>

\* (as signed_content, without the "." between the parts)
signed_content_noDots(delivery_id, timestamp, payload) ==
    delivery_id \o timestamp \o payload

\* f"{delivery_id}.{timestamp}.{payload}"
signed_content(delivery_id, timestamp, payload) ==
    delivery_id \o <<DOT>> \o timestamp \o <<DOT>> \o payload

\* the key block of HMAC: a key shorter than the 64-byte block of SHA-256 is
\* padded with zero bytes to the block, so two keys that differ only in
\* trailing zero bytes are one key.  The block is written as the key without
\* its trailing zero bytes (a key longer than the block, which HMAC hashes
\* first, is not among the secrets used here)
HmacKeyBlock(key) ==
    LET n == CHOOSE i \in 0..Len(key) :
                 (i = 0 \/ key[i] # 0) /\ \A j \in (i + 1)..Len(key) : key[j] = 0
    IN  SubSeq(key, 1, n)

\* (as HmacSha256, with a digest that does not depend on the key)
HmacSha256_noKey(key, msg) == <<256>> \o msg

\* hmac.new(key, msg, sha256).digest(): the digest is a function of the key
\* block and the message without collisions, written as the two byte strings
\* around a mark that is no byte
HmacSha256(key, msg) == HmacKeyBlock(key) \o <<256>> \o msg

\* base64.b64encode(...).decode("utf-8"): one-to-one, and ASCII only
B64Encode(bytes) == Flatten([i \in 1..Len(bytes) |-> <<65 + (bytes[i] \div 16), 65 + (bytes[i] % 16)>>])

expected_signature_b64(payload, secret, delivery_id, timestamp) ==
    B64Encode(HmacSha256(Utf8Encode(secret),
                         Utf8Encode(signed_content(delivery_id, timestamp, payload))))

\* hmac.compare_digest(a, b) on str raises TypeError when either holds a
\* non-ASCII character
CompareDigestRaises(a, b) == ~IsAscii(a) \/ ~IsAscii(b)
compare_digest(a, b) == a = b

\* verify_mlflow_signature: "raise" when compare_digest raises, else the boolean
verify_mlflow_signature(payload, signature, secret, delivery_id, timestamp) ==
    IF ~StartsWith(signature, V1Prefix) THEN "false"
    ELSE LET signature_b64 == RemovePrefix(signature, V1Prefix)
             expected == expected_signature_b64(payload, secret, delivery_id, timestamp)
         IN  IF CompareDigestRaises(signature_b64, expected) THEN "raise"
             ELSE IF compare_digest(signature_b64, expected) THEN "true"
             ELSE "false"

\* the header a sender holding `secret` computes
Sign(payload, secret, delivery_id, timestamp) ==
    V1Prefix \o expected_signature_b64(payload, secret, delivery_id, timestamp)


\* ------------------------------------------------------------ bodies

\* request bodies (bytes).  JSON texts are abbreviated: "{" digit "}" names an
\* object of the table in JsonLoads
BodyInvalidUtf8 == <<255>>
BodyNotJson == <<120>>
BodyList == <<91, 93>>
BodyCreated == <<123, 49, 125>>
BodyCreatedNoData == <<123, 50, 125>>
BodyCreatedNullData == <<123, 51, 125>>
BodyTagSet == <<123, 52, 125>>
BodyEmptyObject == <<123, 125>>

\* bodies the handler answers 200 once the request is authenticated
PlainBodies == {BodyCreated, BodyCreatedNoData, BodyTagSet, BodyEmptyObject}
\* bodies on which decoding, parsing or routing raises
RaisingBodies == {BodyInvalidUtf8, BodyNotJson, BodyList, BodyCreatedNullData}
Bodies == PlainBodies \cup RaisingBodies

NoData == [kind |-> "absent", name |-> "None", source |-> "None", version |-> "None"]

\* json.loads of the body text: kind "invalid" when it raises JSONDecodeError;
\* an absent key reads as "None"; data is a mapping, null, or absent
JsonLoads(text) ==
    CASE text = BodyCreated ->
           [kind |-> "object", entity |-> "model_version", action |-> "created",
            data |-> [kind |-> "map", name |-> "m1", source |-> "s3://bucket/m1",
                      version |-> "3"]]
      [] text = BodyCreatedNoData ->
           [kind |-> "object", entity |-> "model_version", action |-> "created",
            data |-> NoData]
      [] text = BodyCreatedNullData ->
           [kind |-> "object", entity |-> "model_version", action |-> "created",
            data |-> [NoData EXCEPT !.kind = "null"]]
      [] text = BodyTagSet ->
           [kind |-> "object", entity |-> "model_version_tag", action |-> "set",
            data |-> [kind |-> "map", name |-> "m1", source |-> "None", version |-> "3"]]
      [] text = BodyEmptyObject ->
           [kind |-> "object", entity |-> "None", action |-> "None", data |-> NoData]
      [] text = BodyList ->
           [kind |-> "list", entity |-> "None", action |-> "None", data |-> NoData]
      [] OTHER ->
           [kind |-> "invalid", entity |-> "None", action |-> "None", data |-> NoData]

\* webhook_data.get("data", {}): the default {} stands for an absent key
PayloadData(doc) == IF doc.data.kind = "absent" THEN [doc.data EXCEPT !.kind = "map"] ELSE doc.data

\* ----------------------------------------------------------- requests

HeaderNames == {"signature", "delivery_id", "timestamp"}

\* X-MLflow-Delivery-Id values: "" and "d"
DeliveryIds == {<<>>, <<100>>}
\* X-MLflow-Timestamp values: "", "x" and "1"
Timestamps == {<<>>, <<120>>, <<49>>}

\* X-MLflow-Signature values for a request: "", the signature under the
\* configured secret, the one under another secret, the right MAC under the
\* prefix "v2,", "v1," before a non-ASCII character, "v1," before "!"
Signatures(payload, delivery_id, timestamp) ==
    { <<>>,
      Sign(payload, WEBHOOK_SECRET, delivery_id, timestamp),
      Sign(payload, OtherSecret, delivery_id, timestamp),
      <<118, 50, 44>> \o expected_signature_b64(payload, WEBHOOK_SECRET, delivery_id, timestamp),
      V1Prefix \o <<233>>,
      V1Prefix \o <<33>> }

\* the text the sender signs: the body as text when it is text
SenderText(body) == IF Utf8Valid(body) THEN Utf8Decode(body) ELSE <<>>

\* how many ways the request departs from a well-formed signed delivery
Faults(r) ==
    (3 - Cardinality(r.present))
    + (IF "signature" \in r.present
          /\ r.sig # Sign(SenderText(r.body), WEBHOOK_SECRET, r.did, r.ts) THEN 1 ELSE 0)
    + (IF "delivery_id" \in r.present /\ r.did = <<>> THEN 1 ELSE 0)
    + (IF "timestamp" \in r.present /\ r.ts # <<49>> THEN 1 ELSE 0)
    + (IF r.body \in RaisingBodies THEN 1 ELSE 0)

Request(present, sig, did, ts, body) ==
    [present |-> present, sig |-> sig, did |-> did, ts |-> ts, body |-> body]

\* the requests a client may send; a header that is not sent has no value
Requests ==
    { r \in UNION { { Request(present, sig, did, ts, body) :
                       sig \in Signatures(SenderText(body), did, ts) } :
                    present \in SUBSET HeaderNames, did \in DeliveryIds,
                    ts \in Timestamps, body \in Bodies } :
        /\ Faults(r) <= MaxFaults
        /\ "signature" \notin r.present => r.sig = <<>>
        /\ "delivery_id" \notin r.present => r.did = <<>>
        /\ "timestamp" \notin r.present => r.ts = <<>> }

\* the clock readings: one second before the timestamp "1", at it, at its
\* last fresh second and one second after
Times == {0, 1, 1 + MAX_TIMESTAMP_AGE, 2 + MAX_TIMESTAMP_AGE}


\* -------------------------------------------------------------- state

VARIABLES
    now,      \* int(time.time())
    reqs,     \* the POST /webhook requests, by arrival number
    tasks,    \* the tasks made by asyncio.create_task, in creation order
    call      \* a direct call of one of the two verification functions

vars == <<now, reqs, tasks, call>>

ReqIds == 1..MaxRequests

NoRequest == Request({}, <<>>, <<>>, <<>>, <<>>)

\* a request that has not arrived.  pc is the next line of the handler to run,
\* steps the lines run so far, at the clock reading when the handler ran,
\* status the response decided (0 before it)
Idle == [inp |-> NoRequest, pc |-> "idle", steps |-> <<>>, at |-> -1, status |-> 0,
         detail |-> ""]

\* the event loop runs no handler: handle_webhook never yields between the
\* arrival of the body and its end
LoopFree == \A j \in ReqIds : reqs[j].pc # "exit"

\* no direct call: the service calls the two functions from handle_webhook
NoCall == [fn |-> "none", args |-> <<>>, result |-> "none"]

Init ==
    /\ now = 0
    /\ reqs = [i \in ReqIds |-> Idle]
    /\ tasks = <<>>
    /\ call = NoCall

\* the handler has executed `step` and goes on at `pc`
Goes(r, step, pc) == [r EXCEPT !.steps = Append(@, step), !.pc = pc]

\* the handler has executed `step`, which ends the request with a response:
\* an HTTPException, an unhandled exception (500), or the returned value
Ends(r, step, status, detail) ==
    [r EXCEPT !.steps = Append(@, step), !.pc = "exit", !.status = status,
              !.detail = detail]

\* ----------------------------------------------------- handle_webhook

\* Header() without a default declares a required header: FastAPI answers a
\* request that lacks one with 422 and does not call handle_webhook
Validate(r) ==
    IF r.inp.present # HeaderNames
    THEN Ends(r, "validate", 422, "Field required")
    ELSE Goes(r, "validate", "body")

\* payload = (await request.body()).decode("utf-8")
DecodeBody(r) ==
    IF Utf8Valid(r.inp.body)
    THEN Goes(r, "decode", "headers")
    ELSE Ends(r, "decode", 500, "UnicodeDecodeError")

\* if not x_mlflow_signature / x_mlflow_delivery_id / x_mlflow_timestamp
RequireHeaders(r) ==
    IF r.inp.sig = <<>> THEN Ends(r, "headers", 400, "Missing signature header")
    ELSE IF r.inp.did = <<>> THEN Ends(r, "headers", 400, "Missing delivery ID header")
    ELSE IF r.inp.ts = <<>> THEN Ends(r, "headers", 400, "Missing timestamp header")
    ELSE Goes(r, "headers", "fresh")

\* if not verify_timestamp_freshness(x_mlflow_timestamp)
RequireFresh(r, current_timestamp) ==
    IF verify_timestamp_freshness(r.inp.ts, current_timestamp, MAX_TIMESTAMP_AGE)
    THEN Goes(r, "fresh", "sig")
    ELSE Ends(r, "fresh", 400, "Timestamp is too old or invalid (possible replay attack)")

\* (as RequireSignature, with the 401 branch left out)
RequireSignature_noReject(r) ==
    LET v == verify_mlflow_signature(Utf8Decode(r.inp.body), r.inp.sig, WEBHOOK_SECRET,
                                     r.inp.did, r.inp.ts)
    IN  IF v = "raise" THEN Ends(r, "sig", 500, "TypeError") ELSE Goes(r, "sig", "parse")

\* if not verify_mlflow_signature(payload, x_mlflow_signature, WEBHOOK_SECRET, ...)
RequireSignature(r) ==
    LET v == verify_mlflow_signature(Utf8Decode(r.inp.body), r.inp.sig, WEBHOOK_SECRET,
                                     r.inp.did, r.inp.ts)
    IN  IF v = "raise" THEN Ends(r, "sig", 500, "TypeError")
        ELSE IF v = "false" THEN Ends(r, "sig", 401, "Invalid signature")
        ELSE Goes(r, "sig", "parse")

\* webhook_data = await request.json(); entity, action, payload_data = .get(...)
ParseBody(r) ==
    LET doc == JsonLoads(r.inp.body)
    IN  IF doc.kind = "invalid" THEN Ends(r, "parse", 500, "JSONDecodeError")
        ELSE IF doc.kind # "object" THEN Ends(r, "parse", 500, "AttributeError")
        ELSE Goes(r, "parse", "route")

\* the branch of `if entity == ... and action == ...` the document takes
RouteOf(doc) ==
    IF doc.entity = "model_version" /\ doc.action = "created" THEN "build"
    ELSE IF doc.entity = "model_version_tag" /\ doc.action = "set" THEN "tag"
    ELSE "none"

\* payload_data.get(...) raises AttributeError unless payload_data is a mapping
RouteRaises(doc) == RouteOf(doc) # "none" /\ PayloadData(doc).kind # "map"

\* the if / elif on (entity, action), up to the return statement
RouteBody(r) ==
    IF RouteRaises(JsonLoads(r.inp.body))
    THEN Ends(r, "route", 500, "AttributeError")
    ELSE Goes(r, "route", "return")

\* return {"status": "success"}
ReturnSuccess(r) == Ends(r, "return", 200, "success")

\* the line of the handler at r.pc
Step(r, current_timestamp) ==
    CASE r.pc = "idle" -> Validate(r)
      [] r.pc = "body" -> DecodeBody(r)
      [] r.pc = "headers" -> RequireHeaders(r)
      [] r.pc = "fresh" -> RequireFresh(r, current_timestamp)
      [] r.pc = "sig" -> RequireSignature(r)
      [] r.pc = "parse" -> ParseBody(r)
      [] r.pc = "route" -> RouteBody(r)
      [] r.pc = "return" -> ReturnSuccess(r)

\* the handler from the arrival of the request to its end
RECURSIVE handle_webhook(_, _)
handle_webhook(r, current_timestamp) ==
    IF r.pc = "exit" THEN r
    ELSE handle_webhook(Step(r, current_timestamp), current_timestamp)

\* (as NewTask, with the build awaited in the handler instead of handed to
\* asyncio.create_task)
NewTask_awaited(i, payload_data) ==
    [req |-> i, model_uri |-> payload_data.source, model_name |-> payload_data.name,
     version |-> payload_data.version, st |-> "pushed", logged |-> "",
     raised |-> FALSE]

\* the task asyncio.create_task is given: build_and_push_docker_async(
\* model_uri=payload_data.get("source"), model_name=payload_data.get("name"),
\* version=payload_data.get("version")) for the request i
NewTask(i, payload_data) ==
    [req |-> i, model_uri |-> payload_data.source, model_name |-> payload_data.name,
     version |-> payload_data.version, st |-> "created", logged |-> "",
     raised |-> FALSE]

\* (as Dispatched, with a build skipped when a task for the same model
\* version is already known to the service)
Dispatched_deduplicated(i, r) ==
    IF "route" \in {r.steps[n] : n \in 1..Len(r.steps)}
       /\ ~RouteRaises(JsonLoads(r.inp.body))
       /\ RouteOf(JsonLoads(r.inp.body)) = "build"
       /\ \A k \in 1..Len(tasks) :
            tasks[k].model_name # PayloadData(JsonLoads(r.inp.body)).name
    THEN <<NewTask(i, PayloadData(JsonLoads(r.inp.body)))>>
    ELSE <<>>

\* the tasks the handler created on its way: one, in the build branch
Dispatched(i, r) ==
    IF "route" \in {r.steps[n] : n \in 1..Len(r.steps)}
       /\ ~RouteRaises(JsonLoads(r.inp.body))
       /\ RouteOf(JsonLoads(r.inp.body)) = "build"
    THEN <<NewTask(i, PayloadData(JsonLoads(r.inp.body)))>>
    ELSE <<>>

\* a request has arrived, body included, and the event loop runs its handler
\* to the end
Receive(i, inp) ==
    /\ reqs[i].pc = "idle"
    /\ \A j \in ReqIds : j < i => reqs[j].pc # "idle"
    /\ LoopFree
    /\ LET r == handle_webhook([Idle EXCEPT !.inp = inp, !.at = now], now)
       IN  /\ reqs' = [reqs EXCEPT ![i] = r]
           /\ tasks' = tasks \o Dispatched(i, r)
    /\ UNCHANGED <<now, call>>

\* the handler is over: the framework holds the response to send and the
\* request's headers and body are released
Exit(i) ==
    /\ reqs[i].pc = "exit"
    /\ reqs' = [reqs EXCEPT ![i] = [@ EXCEPT !.pc = "respond", !.inp = NoRequest, !.at = -1,
                                               !.steps = <<>>]]
    /\ UNCHANGED <<now, tasks, call>>

\* the response is written to the client, which ends the request
SendResponse(i) ==
    /\ reqs[i].pc = "respond"
    /\ reqs' = [reqs EXCEPT ![i] = [Idle EXCEPT !.pc = "done"]]
    /\ UNCHANGED <<now, tasks, call>>

\* GET /health: return {"status": "healthy"}, whatever the state, which it
\* neither reads nor writes
HealthResponse == [status |-> 200, body |-> "healthy"]

\* (as Health, answering only while no build has failed)
Health_whileNoBuildFailed ==
    /\ \A k \in 1..Len(tasks) : tasks[k].st # "failed"
    /\ HealthResponse.status = 200
    /\ UNCHANGED <<now, reqs, tasks, call>>

Health ==
    /\ HealthResponse.status = 200
    /\ UNCHANGED <<now, reqs, tasks, call>>

\* time passes.  A handler reads the clock once (line 38) and runs to its end
\* without yielding: a clock step that falls within its run is taken after it
Tick ==
    /\ LoopFree
    /\ \E t \in Times : t > now /\ now' = t
    /\ UNCHANGED <<reqs, tasks, call>>

\* ----------------------------------------- build_and_push_docker (tasks)

TaskIds == 1..Len(tasks)

\* (as Caught, with `except docker.errors.APIError` as the only except clause)
Caught_onlyApiError(t, exc) ==
    IF exc = "APIError"
    THEN [t EXCEPT !.st = "failed", !.logged = "Docker API error"]
    ELSE [t EXCEPT !.st = "failed", !.raised = TRUE]

\* what the try block's except clauses do with an exception of class exc:
\* docker.errors.APIError and every other Exception are logged, nothing is
\* raised again
Caught(t, exc) ==
    [t EXCEPT !.st = "failed",
              !.logged = IF exc = "APIError" THEN "Docker API error"
                         ELSE "Failed to build/push Docker image"]

\* (as TaskStart, started by create_task at once, inside the handler)
TaskStart_insideHandler(k) ==
    /\ tasks[k].st = "created"
    /\ \A j \in 1..(k - 1) : tasks[j].st # "created"
    /\ tasks' = [tasks EXCEPT ![k].st = "building"]
    /\ UNCHANGED <<now, reqs, call>>

\* (as TaskStart, with the task cancelled once the response of its request
\* has been sent)
TaskStart_cancelledWithRequest(k) ==
    /\ tasks[k].st = "created"
    /\ \A j \in 1..(k - 1) : tasks[j].st # "created"
    /\ LoopFree
    /\ reqs[tasks[k].req].pc # "done"
    /\ tasks' = [tasks EXCEPT ![k].st = "building"]
    /\ UNCHANGED <<now, reqs, call>>

\* the event loop starts the task (tasks start in the order of their creation):
\* build_and_push_docker_async awaits asyncio.to_thread(build_and_push_docker,
\* ...), which runs in a worker thread
TaskStart(k) ==
    /\ tasks[k].st = "created"
    /\ \A j \in 1..(k - 1) : tasks[j].st # "created"
    /\ LoopFree
    /\ tasks' = [tasks EXCEPT ![k].st = "building"]
    /\ UNCHANGED <<now, reqs, call>>

\* mlflow.models.build_docker and docker.from_env return, or one of them raises
BuildImage(k, outcome) ==
    /\ tasks[k].st = "building"
    /\ tasks' = [tasks EXCEPT ![k] = IF outcome = "ok" THEN [@ EXCEPT !.st = "pushing"]
                                     ELSE Caught(@, outcome)]
    /\ UNCHANGED <<now, reqs, call>>

\* one line of client.images.push(..., stream=True, decode=True): a status
\* line is logged; an error line is logged and raised as Exception
PushLine(k, line) ==
    /\ tasks[k].st = "pushing"
    /\ tasks' = [tasks EXCEPT ![k] = IF line = "error" THEN Caught(@, "Exception") ELSE @]
    /\ UNCHANGED <<now, reqs, call>>

\* the push itself raises docker.errors.APIError
PushRaises(k) ==
    /\ tasks[k].st = "pushing"
    /\ tasks' = [tasks EXCEPT ![k] = Caught(@, "APIError")]
    /\ UNCHANGED <<now, reqs, call>>

\* the stream ends: "Successfully pushed"
PushEnd(k) ==
    /\ tasks[k].st = "pushing"
    /\ tasks' = [tasks EXCEPT ![k].st = "pushed"]
    /\ UNCHANGED <<now, reqs, call>>

\* ------------------------------------------------------ specification

Next ==
    \/ \E i \in ReqIds, inp \in Requests : Receive(i, inp)
    \/ \E i \in ReqIds : Exit(i)
    \/ \E i \in ReqIds : SendResponse(i)
    \/ \E k \in TaskIds : TaskStart(k)
    \/ \E k \in TaskIds, outcome \in {"ok", "Exception", "APIError"} : BuildImage(k, outcome)
    \/ \E k \in TaskIds, line \in {"status", "error"} : PushLine(k, line)
    \/ \E k \in TaskIds : PushRaises(k)
    \/ \E k \in TaskIds : PushEnd(k)
    \/ Health
    \/ Tick

Spec == Init /\ [][Next]_vars

\* The service with its scheduling: the event loop runs a handler to its
\* return and starts every task that is ready; the worker thread of a started
\* task runs, and build_docker and the push, taken to terminate, come to an
\* end: the push stream ends, carries an error line, or raises
PushTerminates(k) == PushEnd(k) \/ PushRaises(k) \/ PushLine(k, "error")

Fairness ==
    /\ WF_vars(\E i \in ReqIds : Exit(i))
    /\ WF_vars(\E k \in TaskIds : TaskStart(k))
    /\ WF_vars(\E k \in TaskIds, outcome \in {"ok", "Exception", "APIError"} : BuildImage(k, outcome))
    /\ WF_vars(\E k \in TaskIds : PushTerminates(k))

\* the requests of a sender that holds the secret: well-formed signed
\* deliveries of the events the handler answers
SenderRequests == {inp \in Requests : Faults(inp) = 0}

NextLive ==
    \/ \E i \in ReqIds, inp \in SenderRequests : Receive(i, inp)
    \/ \E i \in ReqIds : Exit(i)
    \/ \E i \in ReqIds : SendResponse(i)
    \/ \E k \in TaskIds : TaskStart(k)
    \/ \E k \in TaskIds, outcome \in {"ok", "Exception", "APIError"} : BuildImage(k, outcome)
    \/ \E k \in TaskIds, line \in {"status", "error"} : PushLine(k, line)
    \/ \E k \in TaskIds : PushRaises(k)
    \/ \E k \in TaskIds : PushEnd(k)
    \/ Health
    \/ Tick

SpecLive == Init /\ [][NextLive]_vars /\ Fairness

\* ------------------------------------- the two functions, called directly

\* str(t) of an integer: the decimal text a sender puts in the timestamp
RECURSIVE NatText(_)
NatText(n) == IF n < 10 THEN <<48 + n>> ELSE NatText(n \div 10) \o <<48 + (n % 10)>>
IntText(t) == IF t < 0 THEN <<45>> \o NatText(0 - t) ELSE NatText(t)

\* the characters of the texts of a call, "a" and ".", and the texts
Chars == {97, DOT}
Texts == UNION {[1..n -> Chars] : n \in 0..MaxLen}

\* secrets: "k", "w", and "k" followed by NUL
Secrets == {WEBHOOK_SECRET, OtherSecret, WEBHOOK_SECRET \o <<0>>}

\* a delivery and the secret of the party that handles it: a sender signs
\* with "k" or "w", the verifier holds any of the secrets
Deliveries == [payload : Texts, delivery_id : Texts, timestamp : Texts, secret : Secrets]
SignedDeliveries == {d \in Deliveries : d.secret \in {WEBHOOK_SECRET, OtherSecret}}

\* verify_timestamp_freshness on the text of the integer t, read at clock
\* current_timestamp
FreshnessCalls ==
    {[fn |-> "verify_timestamp_freshness",
      args |-> [t |-> t, timestamp_str |-> IntText(t), current_timestamp |-> c,
                max_age |-> m],
      result |-> "pending"] : t \in (-1)..(MaxClock + 1), c \in 0..MaxClock, m \in 0..MaxAge}

\* verify_mlflow_signature on the delivery v with the header a sender computed
\* for the delivery s
SignatureCalls ==
    {[fn |-> "verify_mlflow_signature",
      args |-> [signed |-> s, payload |-> v.payload,
                signature |-> Sign(s.payload, s.secret, s.delivery_id, s.timestamp),
                secret |-> v.secret, delivery_id |-> v.delivery_id,
                timestamp |-> v.timestamp],
      result |-> "pending"] : s \in SignedDeliveries, v \in Deliveries}

InitCalls ==
    /\ now = 0
    /\ reqs = [i \in ReqIds |-> Idle]
    /\ tasks = <<>>
    /\ call \in FreshnessCalls \cup SignatureCalls

CallFreshness ==
    /\ call.fn = "verify_timestamp_freshness"
    /\ call.result = "pending"
    /\ call' = [call EXCEPT !.result =
                   IF verify_timestamp_freshness(call.args.timestamp_str,
                                                 call.args.current_timestamp,
                                                 call.args.max_age)
                   THEN "true" ELSE "false"]
    /\ UNCHANGED <<now, reqs, tasks>>

CallSignature ==
    /\ call.fn = "verify_mlflow_signature"
    /\ call.result = "pending"
    /\ call' = [call EXCEPT !.result =
                   verify_mlflow_signature(call.args.payload, call.args.signature,
                                           call.args.secret, call.args.delivery_id,
                                           call.args.timestamp)]
    /\ UNCHANGED <<now, reqs, tasks>>

NextCalls == CallFreshness \/ CallSignature

SpecCalls == InitCalls /\ [][NextCalls]_vars


\* ---------------------------------------------------- claims: notions

\* the tasks the request i dispatched
TasksOf(i) == { k \in TaskIds : tasks[k].req = i }

\* the handler of request i is over and its headers and body are still held
Handled(i) == reqs[i].pc = "exit"

\* all three headers were sent and none is empty
HeadersPresent(r) ==
    /\ r.inp.present = HeaderNames
    /\ r.inp.sig # <<>> /\ r.inp.did # <<>> /\ r.inp.ts # <<>>

\* the timestamp header is a decimal integer t with 0 <= at - t <= max_age
FreshTimestamp(r) ==
    /\ IntParses(r.inp.ts)
    /\ r.at - IntValue(r.inp.ts) >= 0
    /\ r.at - IntValue(r.inp.ts) <= MAX_TIMESTAMP_AGE

\* the signature header is "v1," + base64(HMAC(secret, id "." timestamp "." body))
CorrectlySigned(r) ==
    /\ Utf8Valid(r.inp.body)
    /\ r.inp.sig = V1Prefix \o B64Encode(HmacSha256(Utf8Encode(WEBHOOK_SECRET),
           Utf8Encode(r.inp.did \o <<DOT>> \o r.inp.ts \o <<DOT>> \o Utf8Decode(r.inp.body))))

\* headers present, fresh, correctly signed
Accepted(r) == HeadersPresent(r) /\ FreshTimestamp(r) /\ CorrectlySigned(r)

\* the body is a JSON object with entity "model_version" and action "created"
IsCreated(r) ==
    /\ Utf8Valid(r.inp.body)
    /\ JsonLoads(r.inp.body).kind = "object"
    /\ JsonLoads(r.inp.body).entity = "model_version"
    /\ JsonLoads(r.inp.body).action = "created"

StepsOf(r) == { r.steps[n] : n \in 1..Len(r.steps) }

\* ------------------------------------------------------------- claims

\* C1: a build is dispatched for a request only if the request had all three
\* headers present and non-empty, was fresh, was correctly signed and carried
\* entity "model_version" with action "created"; a request answered 400 or
\* 401, and an accepted request with any other (entity, action), dispatches
\* nothing; every task belongs to a request that was received.
C1_DispatchOnlyForAuthenticCreated ==
    /\ \A k \in TaskIds : tasks[k].req \in ReqIds /\ reqs[tasks[k].req].pc # "idle"
    /\ \A i \in ReqIds : Handled(i) =>
         /\ TasksOf(i) # {} => Accepted(reqs[i]) /\ IsCreated(reqs[i])
         /\ reqs[i].status \in {400, 401} => TasksOf(i) = {}
         /\ Accepted(reqs[i]) /\ ~IsCreated(reqs[i]) => TasksOf(i) = {}

\* C1 witness: a handled request has dispatched a build while another handled
\* or answered request (rejected, or of another event type) has dispatched none
C1_Witness ==
    \E i \in ReqIds, j \in ReqIds :
        /\ Handled(i) /\ TasksOf(i) # {}
        /\ j # i /\ reqs[j].pc # "idle" /\ TasksOf(j) = {}


\* C2 (as claimed): every accepted request with entity "model_version" and
\* action "created" dispatches exactly one build, with model_uri = data.source,
\* model_name = data.name, version = data.version (absent fields as absent).
C2_EveryCreatedDispatchesOnce ==
    \A i \in ReqIds : Handled(i) /\ Accepted(reqs[i]) /\ IsCreated(reqs[i]) =>
        /\ Cardinality(TasksOf(i)) = 1
        /\ \A k \in TasksOf(i) :
             /\ tasks[k].model_uri = JsonLoads(reqs[i].inp.body).data.source
             /\ tasks[k].model_name = JsonLoads(reqs[i].inp.body).data.name
             /\ tasks[k].version = JsonLoads(reqs[i].inp.body).data.version

\* C3 (as claimed): every request with all three headers present that is fresh
\* and correctly signed is answered 200 {"status": "success"}, whatever its
\* body's entity, action and data are.
C3_AcceptedAnswered200 ==
    \A i \in ReqIds : Handled(i) /\ Accepted(reqs[i]) =>
        reqs[i].status = 200 /\ reqs[i].detail = "success"

\* the lines of the handler that are checks, in the order of the claim
CheckOrder == <<"headers", "fresh", "sig", "parse", "route">>

\* the checks the request went through, in the order it went through them
ChecksOf(r) == SelectSeq(r.steps, LAMBDA x : x \in {"headers", "fresh", "sig", "parse", "route"})

\* the timestamp header is a decimal integer older than max_age
StaleTimestamp(r) ==
    IntParses(r.inp.ts) /\ r.at - IntValue(r.inp.ts) > MAX_TIMESTAMP_AGE

\* C4 (as claimed): the handler checks header presence, freshness, signature,
\* then parses, then routes, and stops at the first check that fails: no
\* signature check after failed presence or freshness, no JSON parse after a
\* failed check, and a stale, wrongly signed request is answered 400.
C4_FixedOrderFirstFailureWins ==
    \A i \in ReqIds : Handled(i) =>
        /\ ChecksOf(reqs[i]) = SubSeq(CheckOrder, 1, Len(ChecksOf(reqs[i])))
        /\ ~(HeadersPresent(reqs[i]) /\ FreshTimestamp(reqs[i])) => "sig" \notin StepsOf(reqs[i])
        /\ ~Accepted(reqs[i]) => "parse" \notin StepsOf(reqs[i])
        /\ HeadersPresent(reqs[i]) /\ StaleTimestamp(reqs[i]) /\ ~CorrectlySigned(reqs[i])
             => reqs[i].status = 400

\* C5 (as claimed): a request in which one of the three headers is missing or
\* empty is answered 400 with a missing-header reason, and neither freshness
\* nor signature is checked for it.
C5_MissingHeaderAnswered400 ==
    \A i \in ReqIds : Handled(i) /\ ~HeadersPresent(reqs[i]) =>
        /\ reqs[i].status = 400
        /\ reqs[i].detail \in {"Missing signature header", "Missing delivery ID header",
                               "Missing timestamp header"}
        /\ "fresh" \notin StepsOf(reqs[i]) /\ "sig" \notin StepsOf(reqs[i])

\* C6 (as claimed): a request with all three headers present whose timestamp
\* is stale, in the future or no integer is answered 400, whatever its
\* signature and body are.
C6_NotFreshAnswered400 ==
    \A i \in ReqIds : Handled(i) /\ HeadersPresent(reqs[i]) /\ ~FreshTimestamp(reqs[i]) =>
        reqs[i].status = 400

\* C7 (as claimed): a request with all three headers present and a fresh
\* timestamp whose signature header does not begin with "v1," or whose MAC does
\* not match is answered 401 "Invalid signature".
C7_BadSignatureAnswered401 ==
    \A i \in ReqIds :
        Handled(i) /\ HeadersPresent(reqs[i]) /\ FreshTimestamp(reqs[i])
                   /\ ~CorrectlySigned(reqs[i]) =>
            reqs[i].status = 401 /\ reqs[i].detail = "Invalid signature"

\* the symbols base64 text is made of
IsBase64Text(s) == \A n \in 1..Len(s) : s[n] >= 65 /\ s[n] <= 81

\* a signature header without the prefix "v1,", or with characters after it
\* that are not base64
MalformedSignature(sig) ==
    ~StartsWith(sig, V1Prefix) \/ ~IsBase64Text(RemovePrefix(sig, V1Prefix))

\* C8 (as claimed): the verification functions fail closed: on a malformed
\* signature header or timestamp they return false without raising, so the
\* handler ends in 400 or 401, never in an unhandled fault or an acceptance.
C8_MalformedInputRejected ==
    \A i \in ReqIds :
        Handled(i) /\ HeadersPresent(reqs[i]) /\ Utf8Valid(reqs[i].inp.body)
                   /\ (MalformedSignature(reqs[i].inp.sig) \/ ~IntParses(reqs[i].inp.ts)) =>
            /\ MalformedSignature(reqs[i].inp.sig) =>
                 verify_mlflow_signature(Utf8Decode(reqs[i].inp.body), reqs[i].inp.sig,
                     WEBHOOK_SECRET, reqs[i].inp.did, reqs[i].inp.ts) = "false"
            /\ ~IntParses(reqs[i].inp.ts) =>
                 ~verify_timestamp_freshness(reqs[i].inp.ts, reqs[i].at, MAX_TIMESTAMP_AGE)
            /\ reqs[i].status \in {400, 401}

\* C9: when the handler of a dispatching request ends, its answer is 200
\* "success" and the build it dispatched has not started; while the response
\* waits to be sent it stays 200 "success" whatever the build does meanwhile
\* (not started, building, pushing, pushed, failed).
C9_ResponseDoesNotWaitOnBuild ==
    \A k \in TaskIds :
        LET r == reqs[tasks[k].req]
        IN  /\ r.pc = "exit" => tasks[k].st = "created"
            /\ r.pc \in {"exit", "respond"} => r.status = 200 /\ r.detail = "success"

\* C9 witness: a response still to be sent whose build has already failed
C9_Witness ==
    \E k \in TaskIds : reqs[tasks[k].req].pc = "respond" /\ tasks[k].st = "failed"

\* a well-formed delivery of an event the handler knows how to answer
WellFormed(r) == Accepted(r) /\ r.inp.body \in PlainBodies

\* C10: a failed build or push is logged and nothing is raised out of
\* build_and_push_docker; the response of the request that dispatched it
\* stays 200, and a later well-formed request is still answered 200 and, for
\* a creation event, still dispatches its build.
C10_BuildFailureOnlyLogged ==
    /\ \A k \in TaskIds :
         /\ ~tasks[k].raised
         /\ tasks[k].st = "failed" =>
              /\ tasks[k].logged \in {"Docker API error", "Failed to build/push Docker image"}
              /\ reqs[tasks[k].req].pc \in {"exit", "respond"}
                   => reqs[tasks[k].req].status = 200
    /\ \A i \in ReqIds :
         Handled(i) /\ WellFormed(reqs[i])
                    /\ (\E k \in TaskIds : tasks[k].st = "failed" /\ tasks[k].req < i) =>
             /\ reqs[i].status = 200
             /\ IsCreated(reqs[i]) => TasksOf(i) # {}

\* C10 witness: a push failed on an error line of the stream, and a later
\* creation event has been handled
C10_Witness ==
    \E k \in TaskIds, i \in ReqIds :
        /\ tasks[k].st = "failed" /\ tasks[k].logged = "Failed to build/push Docker image"
        /\ tasks[k].req < i /\ Handled(i) /\ IsCreated(reqs[i]) /\ reqs[i].status = 200

\* the direct call of fn has returned
Returned(fn) == call.fn = fn /\ call.result # "pending"

\* C11: for every integer timestamp t, clock reading and max_age,
\* verify_timestamp_freshness is true exactly when 0 <= now - t <= max_age;
\* age 0 and age max_age are accepted, age max_age + 1 and every t > now are
\* rejected
C11_FreshExactlyWithinWindow ==
    Returned("verify_timestamp_freshness") =>
        LET age == call.args.current_timestamp - call.args.t
        IN  /\ (call.result = "true") <=> (0 <= age /\ age <= call.args.max_age)
            /\ age \in {0, call.args.max_age} => call.result = "true"
            /\ age = call.args.max_age + 1 => call.result = "false"
            /\ call.args.t > call.args.current_timestamp => call.result = "false"

\* a two-digit timestamp exactly max_age old is accepted
C11_Witness ==
    /\ Returned("verify_timestamp_freshness")
    /\ call.args.t >= 10 /\ call.args.max_age > 0
    /\ call.args.current_timestamp - call.args.t = call.args.max_age
    /\ call.result = "true"

\* the verified payload, delivery id and timestamp are the signed ones
SameDelivery ==
    /\ call.args.payload = call.args.signed.payload
    /\ call.args.delivery_id = call.args.signed.delivery_id
    /\ call.args.timestamp = call.args.signed.timestamp

\* b is a followed by NUL characters only
NulPadded(a, b) ==
    /\ StartsWith(b, a)
    /\ \A i \in (Len(a) + 1)..Len(b) : b[i] = 0

\* C12 (as stated): the header computed for a payload, delivery id and
\* timestamp under a secret verifies true under that secret and false under
\* any different secret
C12_OnlySameSecretVerifies ==
    Returned("verify_mlflow_signature") /\ SameDelivery =>
        call.result = IF call.args.secret = call.args.signed.secret THEN "true" ELSE "false"

\* C12 (amended): the header verifies true under that secret, and under a
\* secret that differs from it only in trailing NUL characters; it verifies
\* false under every other secret
C12_OnlySameKeyBlockVerifies ==
    Returned("verify_mlflow_signature") /\ SameDelivery =>
        call.result = IF \/ NulPadded(call.args.secret, call.args.signed.secret)
                         \/ NulPadded(call.args.signed.secret, call.args.secret)
                      THEN "true" ELSE "false"

\* a header for a payload with "." in it, signed with "k", fails under "w"
C12_Witness ==
    /\ Returned("verify_mlflow_signature") /\ SameDelivery
    /\ call.args.payload = <<DOT>> /\ call.args.delivery_id # <<>>
    /\ call.args.signed.secret = WEBHOOK_SECRET /\ call.args.secret = OtherSecret
    /\ call.result = "false"

\* b is a with one character replaced
OneChanged(a, b) ==
    /\ Len(a) = Len(b)
    /\ Cardinality({i \in 1..Len(a) : a[i] # b[i]}) = 1

\* the header of the call verifies for what was signed under the secret of
\* the call
HeaderVerifiesForSigned ==
    verify_mlflow_signature(call.args.signed.payload, call.args.signature, call.args.secret,
                            call.args.signed.delivery_id, call.args.signed.timestamp) = "true"

\* one character of one of payload, delivery id, timestamp differs from what
\* was signed; everything else is as signed
SingleChange ==
    \/ /\ OneChanged(call.args.signed.payload, call.args.payload)
       /\ call.args.delivery_id = call.args.signed.delivery_id
       /\ call.args.timestamp = call.args.signed.timestamp
    \/ /\ call.args.payload = call.args.signed.payload
       /\ OneChanged(call.args.signed.delivery_id, call.args.delivery_id)
       /\ call.args.timestamp = call.args.signed.timestamp
    \/ /\ call.args.payload = call.args.signed.payload
       /\ call.args.delivery_id = call.args.signed.delivery_id
       /\ OneChanged(call.args.signed.timestamp, call.args.timestamp)

\* C13: with a header that verifies for (payload, delivery_id, timestamp)
\* under a secret, verify_mlflow_signature under the same header and secret
\* returns false once a single byte of the payload, of the delivery id or of
\* the timestamp is changed
C13_SingleChangeFailsVerification ==
    Returned("verify_mlflow_signature") /\ HeaderVerifiesForSigned /\ SingleChange
        => call.result = "false"

\* the payload "a" was signed, the payload "." is verified and fails
C13_Witness ==
    /\ Returned("verify_mlflow_signature") /\ HeaderVerifiesForSigned /\ SingleChange
    /\ call.args.signed.payload = <<97>> /\ call.args.payload = <<DOT>>
    /\ call.args.delivery_id # <<>> /\ call.args.timestamp # <<>>
    /\ call.result = "false"

\* the status code and the number of builds dispatched that the headers and
\* body of a request, the clock reading and the configured secret and max_age
\* determine
OutcomeOf(inp, at) ==
    LET r == [inp |-> inp, at |-> at]
        doc == JsonLoads(inp.body)
        Answer(status, builds) == [status |-> status, builds |-> builds]
    IN  IF inp.present # HeaderNames THEN Answer(422, 0)
        ELSE IF ~Utf8Valid(inp.body) THEN Answer(500, 0)
        ELSE IF ~HeadersPresent(r) \/ ~FreshTimestamp(r) THEN Answer(400, 0)
        ELSE IF StartsWith(inp.sig, V1Prefix) /\ ~IsAscii(inp.sig) THEN Answer(500, 0)
        ELSE IF ~CorrectlySigned(r) THEN Answer(401, 0)
        ELSE IF doc.kind # "object" THEN Answer(500, 0)
        ELSE IF doc.data.kind = "null"
                /\ <<doc.entity, doc.action>> \in {<<"model_version", "created">>,
                                                   <<"model_version_tag", "set">>}
             THEN Answer(500, 0)
        ELSE Answer(200, IF IsCreated(r) THEN 1 ELSE 0)

\* C14: the status code of a request and whether it dispatches a build are a
\* function of its headers and body, the clock reading and the configuration
\* alone, whatever other requests are in flight and whatever builds were
\* dispatched, run or failed
C14_OutcomeFunctionOfRequestAlone ==
    \A i \in ReqIds : Handled(i) =>
        /\ reqs[i].status = OutcomeOf(reqs[i].inp, reqs[i].at).status
        /\ Cardinality(TasksOf(i)) = OutcomeOf(reqs[i].inp, reqs[i].at).builds

\* a creation event dispatches its build while the response of an earlier
\* request for the same model is unsent and that request's build is pushing
C14_Witness ==
    \E i \in ReqIds, k \in TaskIds :
        /\ Handled(i) /\ IsCreated(reqs[i]) /\ Cardinality(TasksOf(i)) = 1
        /\ tasks[k].req < i /\ tasks[k].st = "pushing"
        /\ \A m \in TasksOf(i) : tasks[m].model_name = tasks[k].model_name
        /\ reqs[tasks[k].req].pc = "respond"

\* C15: GET /health is answered 200 {"status": "healthy"} in every reachable
\* state, with builds in flight or failed, needing no header and changing
\* nothing
C15_HealthAnswersInEveryState ==
    /\ ENABLED Health
    /\ HealthResponse = [status |-> 200, body |-> "healthy"]

\* /health answers while one build has failed, another is running and a
\* webhook response is still unsent
C15_Witness ==
    /\ ENABLED Health
    /\ \E k \in TaskIds : tasks[k].st = "failed"
    /\ \E k \in TaskIds : tasks[k].st \in {"building", "pushing"}
    /\ \E i \in ReqIds : reqs[i].pc = "respond"

\* C16 (as stated): a build begins only after the response of the request
\* that dispatched it has been sent
C16_BuildStartsAfterResponseSent ==
    \A k \in TaskIds : tasks[k].st # "created" => reqs[tasks[k].req].pc = "done"

\* C16 (amended): a build begins only after the handler of the request that
\* dispatched it has returned the response; it never starts while the handler
\* runs
C16_BuildStartsAfterHandlerReturned ==
    \A k \in TaskIds : tasks[k].st # "created" => reqs[tasks[k].req].pc \in {"respond", "done"}

\* a build is running while the response of its request is still unsent
C16_Witness ==
    \E k \in TaskIds : tasks[k].st = "building" /\ reqs[tasks[k].req].pc = "respond"

\* C17: every dispatched build eventually runs and ends, pushed or failed
\* and logged; the return of the handler and the sending of the response
\* neither cancel nor drop it
C17_EveryBuildTerminates ==
    \A k \in 1..MaxRequests :
        (Len(tasks) >= k) ~> (Len(tasks) >= k /\ tasks[k].st \in {"pushed", "failed"})

\* a build that started after the response of its request was sent has been
\* pushed
C17_Witness ==
    \E k \in TaskIds, j \in TaskIds :
        /\ tasks[k].st = "pushed" /\ reqs[tasks[k].req].pc = "done"
        /\ tasks[j].st = "created" /\ reqs[tasks[j].req].pc = "done"

\* C18: under a clock that only advances, a request that was accepted (headers
\* present, correctly signed) and is sent again after now has passed
\* timestamp + max_age is answered 400 and dispatches nothing; a request
\* dispatches a build only while 0 <= now - timestamp <= max_age
C18_ExpiredResendRejected ==
    \A i \in ReqIds : Handled(i) =>
        /\ HeadersPresent(reqs[i]) /\ CorrectlySigned(reqs[i]) /\ StaleTimestamp(reqs[i])
             => reqs[i].status = 400 /\ TasksOf(i) = {}
        /\ TasksOf(i) # {} => FreshTimestamp(reqs[i])

\* the creation event that dispatched a build while fresh is sent again after
\* its timestamp has expired, and is answered 400 without a second build
C18_Witness ==
    \E i \in ReqIds, k \in TaskIds :
        /\ tasks[k].req < i
        /\ Handled(i) /\ IsCreated(reqs[i])
        /\ HeadersPresent(reqs[i]) /\ CorrectlySigned(reqs[i]) /\ StaleTimestamp(reqs[i])
        /\ tasks[k].model_name = PayloadData(JsonLoads(reqs[i].inp.body)).name
        /\ reqs[i].status = 400 /\ TasksOf(i) = {}

\* the text holds no "."
DotFree(s) == \A n \in 1..Len(s) : s[n] # DOT

\* C19 (as stated): a header that verifies for (payload, delivery_id,
\* timestamp) under a secret verifies for no other triple under that secret,
\* "." in the delivery id or the payload included
C19_HeaderVerifiesOneDeliveryOnly ==
    Returned("verify_mlflow_signature") /\ HeaderVerifiesForSigned /\ ~SameDelivery
        => call.result = "false"

\* C19 (amended): a header that verifies for a triple whose delivery id and
\* timestamp hold no "." verifies for no other such triple under that secret,
\* whatever the payloads hold
C19_HeaderVerifiesOneDotFreeDeliveryOnly ==
    /\ Returned("verify_mlflow_signature") /\ HeaderVerifiesForSigned /\ ~SameDelivery
    /\ DotFree(call.args.signed.delivery_id) /\ DotFree(call.args.signed.timestamp)
    /\ DotFree(call.args.delivery_id) /\ DotFree(call.args.timestamp)
    => call.result = "false"

\* a header signed for delivery id "a", an empty timestamp and payload "."
\* fails for an empty delivery id with timestamp "a"
C19_Witness ==
    /\ Returned("verify_mlflow_signature") /\ HeaderVerifiesForSigned /\ ~SameDelivery
    /\ call.args.signed.delivery_id = <<97>> /\ call.args.signed.timestamp = <<>>
    /\ call.args.signed.payload = <<DOT>>
    /\ call.args.delivery_id = <<>> /\ call.args.timestamp = <<97>>
    /\ call.result = "false"

====
